---- MODULE Spec2Model ----
(***************************************************************************)
(* A model of PercentMatcher (src/percent_matching.py): the boundary       *)
(* refinement of match ranges, the raw percent timeline, the extraction of *)
(* the top matches of a score map, template calibration and the            *)
(* initialisation of the template scale.                                   *)
(*                                                                         *)
(* Confidences are real numbers in [0,1] in the program; the model keeps   *)
(* them in tenths (0..10), so conf_threshold 0.8 is 8.                     *)
(***************************************************************************)
EXTENDS Integers, Sequences, FiniteSets, TLC

---------------------------------------------------------------------------
(* Bounds of the model *)

\* refinement: the video has frames 0..MaxFrame
MaxFrame == 5
\* refinement: fine steps 1..MaxFineStep, miss-streak limits 1..MaxMissLimit
MaxFineStep == 2
MaxMissLimit == 2
\* timeline: frames 0..MaxTimelineFrame, the range starts in 0..MaxStartFrame
\* and is swept with a step in 1..MaxStepSize
MaxTimelineFrame == 5
MaxStartFrame == 2
MaxStepSize == 2
\* score maps of up to MaxRows x MaxCols cells, suppression radius
\* 0..MaxRadius, 1..MaxResults maxima asked for
MaxRows == 3
MaxCols == 3
MaxRadius == 2
MaxResults == 2
\* initialisation of the template scale: 1..MaxInitFrames random samples
MaxInitFrames == 3

---------------------------------------------------------------------------
(* Parameters set by the constructor *)

conf_threshold == 8
default_prec_step_size == 2
default_prec_step_threshold == 4
calib_w_lo == 24
calib_w_hi == 30
roi_y_tolerance == 3

---------------------------------------------------------------------------
VARIABLES
    pc,                      \* position in the running method
    err,                     \* the exception that ended it, or "none"
    start_fnum, stop_fnum,   \* self.start_fnum, self.stop_fnum
    step_size,               \* self.step_size
    conf,                    \* frame source: frame number -> top confidence
    prec_step_size,          \* self.prec_step_size
    prec_step_threshold,     \* self.prec_step_threshold
    init_match_ranges_flat,  \* get_precise_match_ranges: flattened input
    i,                       \* loop index (0-based)
    fnum,                    \* current frame number
    current_step_size,       \* signed fine step of the current search
    prec_counter,            \* consecutive-miss counter (Unbound before its
                             \* first assignment)
    prec_match_ranges_flat,  \* boundaries reported so far
    new_match_ranges,        \* the value returned: list of pairs
    pct_timeline,            \* get_pct_timeline: labels, 0 found, -1 not
    timeline_ranges,         \* timeline.get_ranges(clean_timeline)
    match_ranges,            \* np.multiply(timeline_ranges, step_size)
    match_mat,               \* score map: <<row, col>> -> value
    match_mat_dims,          \* match_mat.shape: <<rows, cols>>
    num_results,             \* get_match_results: number of maxima wanted
    template_match_radius,   \* self.template_match_radius
    max_val_list,            \* maxima extracted so far
    top_left_list,           \* their locations, <<x, y>>
    frame,                   \* calibration: width -> best match of the
                             \* frame against the template at that width
    calib_result,            \* what get_calibrate_results returned
    num_init_frames,         \* self.num_init_frames
    random_fnum_idx,         \* initialize_template_scale: samples done
    opt_w_list, bbox_list,   \* widths and boxes of the retained samples
    pct_img,                 \* working template (and mask) size <<w, h>>
    template_roi             \* self.template_roi, NoRoi while None

refineVars == <<prec_step_size, prec_step_threshold, init_match_ranges_flat,
                i, fnum, current_step_size, prec_counter,
                prec_match_ranges_flat, new_match_ranges>>

timelineVars == <<pct_timeline, timeline_ranges, match_ranges>>

scoreVars == <<match_mat, match_mat_dims, num_results, template_match_radius,
               max_val_list, top_left_list>>

calibVars == <<frame, calib_result>>

scaleVars == <<num_init_frames, random_fnum_idx, opt_w_list, bbox_list,
               pct_img, template_roi>>

vars == <<pc, err, start_fnum, stop_fnum, step_size, conf, refineVars,
          timelineVars, scoreVars, calibVars, scaleVars>>

---------------------------------------------------------------------------
(* Helpers *)

Max(a, b) == IF a >= b THEN a ELSE b
Min(a, b) == IF a <= b THEN a ELSE b

SetMax(S) == CHOOSE x \in S : \A y \in S : y <= x
SetMin(S) == CHOOSE x \in S : \A y \in S : x <= y

Last(s) == s[Len(s)]

\* a local variable of a Python function that has not been assigned yet
Unbound == -1

\* an exception leaves the method: nothing else changes
Raise(e) == /\ pc' = "error"
            /\ err' = e

\* util.get_frame(capture, fnum, gray_flag): a frame number outside the
\* video has no frame, and the failure propagates to the caller
FrameExists(f) == f \in DOMAIN conf

\* confidence_list[0] > self.conf_threshold
IsFoundGE(c) == c >= conf_threshold
IsFound(c) == c > conf_threshold

\* self.template_roi = None
NoRoi == <<>>

\* the template after the constructor's rescale of the 24x32 sprite by
\* 360/480: <<width, height>>
orig_w == 24
orig_h == 32
InitialPctImg == <<(orig_w * 360) \div 480, (orig_h * 360) \div 480>>

\* the state of the methods that are not running
RefineIdle ==
    /\ prec_step_size = default_prec_step_size
    /\ prec_step_threshold = default_prec_step_threshold
    /\ init_match_ranges_flat = <<>>
    /\ i = 0
    /\ current_step_size = 0
    /\ prec_counter = Unbound
    /\ prec_match_ranges_flat = <<>>
    /\ new_match_ranges = <<>>

TimelineIdle ==
    /\ pct_timeline = <<>>
    /\ timeline_ranges = <<>>
    /\ match_ranges = <<>>

ScoreIdle ==
    /\ match_mat = <<>>
    /\ match_mat_dims = <<0, 0>>
    /\ num_results = 0
    /\ template_match_radius = 2
    /\ max_val_list = <<>>
    /\ top_left_list = <<>>

CalibIdle ==
    /\ frame = <<>>
    /\ calib_result = <<>>

ScaleIdle ==
    /\ num_init_frames = 0
    /\ random_fnum_idx = 0
    /\ opt_w_list = <<>>
    /\ bbox_list = <<>>
    /\ pct_img = InitialPctImg
    /\ template_roi = NoRoi

---------------------------------------------------------------------------
(* get_precise_match_ranges *)

\* fnum - current_step_size*(prec_counter+1)
ExhaustBoundaryNoBackoff(f, s, c) == f - s * c
ExhaustBoundary(f, s, c) == f - s * (c + 1)

\* np.reshape(prec_match_ranges_flat, (-1, 2))
Reshape(flat) == [k \in 1..(Len(flat) \div 2) |-> <<flat[2*k - 1], flat[2*k]>>]

\* np.ndarray.flatten of a list of pairs
Flatten(ranges) ==
    [k \in 1..(2 * Len(ranges)) |-> ranges[(k + 1) \div 2][2 - (k % 2)]]

\* for i, fnum_prediction in enumerate(init_match_ranges_flat): next boundary
ForNext ==
    /\ pc = "for"
    /\ i < Len(init_match_ranges_flat)
    /\ fnum' = init_match_ranges_flat[i + 1]
    /\ current_step_size' = IF i % 2 = 0 THEN -prec_step_size
                                         ELSE prec_step_size
    /\ pc' = "while"
    /\ UNCHANGED <<err, start_fnum, stop_fnum, step_size, conf,
                   prec_step_size, prec_step_threshold,
                   init_match_ranges_flat, i, prec_counter,
                   prec_match_ranges_flat, new_match_ranges>>
    /\ UNCHANGED <<timelineVars, scoreVars, calibVars, scaleVars>>

\* one iteration of the while loop of the current boundary search
WhileBody ==
    /\ pc = "while"
    /\ IF ~FrameExists(fnum)
       THEN /\ Raise("EndOfStream")
            /\ UNCHANGED <<i, fnum, prec_counter, prec_match_ranges_flat>>
       ELSE IF ~IsFound(conf[fnum]) /\ prec_counter = Unbound
       THEN /\ Raise("UnboundLocalError")
            /\ UNCHANGED <<i, fnum, prec_counter, prec_match_ranges_flat>>
       ELSE LET c == IF IsFound(conf[fnum]) THEN 0 ELSE prec_counter + 1
            IN  /\ prec_counter' = c
                /\ err' = err
                /\ IF c = prec_step_threshold
                   THEN /\ prec_match_ranges_flat' =
                              Append(prec_match_ranges_flat,
                                     ExhaustBoundary(fnum, current_step_size, c))
                        /\ i' = i + 1
                        /\ pc' = "for"
                        /\ fnum' = fnum
                   ELSE IF fnum = 0 \/ fnum = stop_fnum
                   THEN /\ prec_match_ranges_flat' =
                              Append(prec_match_ranges_flat, fnum)
                        /\ i' = i + 1
                        /\ pc' = "for"
                        /\ fnum' = fnum
                   ELSE /\ fnum' = fnum + current_step_size
                        /\ pc' = "while"
                        /\ UNCHANGED <<i, prec_match_ranges_flat>>
    /\ UNCHANGED <<start_fnum, stop_fnum, step_size, conf, prec_step_size,
                   prec_step_threshold, init_match_ranges_flat,
                   current_step_size, new_match_ranges>>
    /\ UNCHANGED <<timelineVars, scoreVars, calibVars, scaleVars>>

\* return np.reshape(prec_match_ranges_flat, (-1, 2))
RefineReturn ==
    /\ pc = "for"
    /\ i = Len(init_match_ranges_flat)
    /\ new_match_ranges' = Reshape(prec_match_ranges_flat)
    /\ pc' = "done"
    /\ UNCHANGED <<err, start_fnum, stop_fnum, step_size, conf,
                   prec_step_size, prec_step_threshold,
                   init_match_ranges_flat, i, fnum, current_step_size,
                   prec_counter, prec_match_ranges_flat>>
    /\ UNCHANGED <<timelineVars, scoreVars, calibVars, scaleVars>>

\* the inputs of get_precise_match_ranges: one or two coarse ranges in
\* increasing order with boundaries in 0..stop
CoarseRanges(stop) ==
    {<<r>> : r \in {p \in (0..stop) \X (0..stop) : p[1] <= p[2]}}
    \cup {<<r1, r2>> : <<r1, r2>> \in
             {q \in ((0..stop) \X (0..stop)) \X ((0..stop) \X (0..stop)) :
                 /\ q[1][1] <= q[1][2]
                 /\ q[1][2] < q[2][1]
                 /\ q[2][1] <= q[2][2]}}

\* the fixture of spec.md section 8: coarse range (120,180), confidence 1.0 on
\* frames 125..175 and 0 elsewhere, default fine step and miss-streak limit
FixtureRanges == << <<120, 180>> >>
FixtureConf == [f \in 0..200 |-> IF 125 <= f /\ f <= 175 THEN 10 ELSE 0]
IsFixture == /\ conf = FixtureConf
             /\ init_match_ranges_flat = Flatten(FixtureRanges)
             /\ prec_step_size = default_prec_step_size
             /\ prec_step_threshold = default_prec_step_threshold

RefineInit ==
    /\ pc = "for"
    /\ err = "none"
    /\ start_fnum = 0
    /\ step_size = 1
    /\ i = 0
    /\ fnum = 0
    /\ current_step_size = 0
    /\ prec_counter = Unbound
    /\ prec_match_ranges_flat = <<>>
    /\ new_match_ranges = <<>>
    /\ TimelineIdle /\ ScoreIdle /\ CalibIdle /\ ScaleIdle
    /\ \/ /\ conf \in [0..MaxFrame -> {0, 10}]
          /\ stop_fnum \in {MaxFrame, MaxFrame + 1}
          /\ prec_step_size \in 1..MaxFineStep
          /\ prec_step_threshold \in 1..MaxMissLimit
          /\ \E ranges \in CoarseRanges(MaxFrame) :
                init_match_ranges_flat = Flatten(ranges)
       \/ /\ conf = FixtureConf
          /\ stop_fnum = 200
          /\ prec_step_size = default_prec_step_size
          /\ prec_step_threshold = default_prec_step_threshold
          /\ init_match_ranges_flat = Flatten(FixtureRanges)

RefineNext == ForNext \/ WhileBody \/ RefineReturn

SpecRefine == RefineInit /\ [][RefineNext]_vars

---------------------------------------------------------------------------
(* Claims about get_precise_match_ranges *)

\* the boundary whose search is running (pc = "while")
SearchStart == init_match_ranges_flat[i + 1]

\* the frames the running search has scored, the current one included
Visited ==
    {f \in DOMAIN conf :
        /\ (f - SearchStart) % prec_step_size = 0
        /\ IF current_step_size < 0
           THEN fnum <= f /\ f <= SearchStart
           ELSE SearchStart <= f /\ f <= fnum}

HitsVisited == {f \in Visited : IsFound(conf[f])}

\* the hit scored last: the one nearest to the current frame
LastHitVisited == IF current_step_size < 0 THEN SetMin(HitsVisited)
                                           ELSE SetMax(HitsVisited)

\* the step that ends the running search by miss-streak exhaustion
ExhaustExit == /\ pc = "while"
               /\ pc' = "for"
               /\ prec_counter' = prec_step_threshold

\* C1: on the fixture (coarse range (120,180), fine step 2, miss-streak limit
\* 4, confidence 1.0 on frames 125..175 and 0 elsewhere) refinement completes
\* normally and returns one pair (start, end) with 120 < start <= 125 and
\* 175 <= end < 180.
C1_FixtureRefined ==
    (IsFixture /\ pc \in {"done", "error"}) =>
        /\ pc = "done"
        /\ Len(new_match_ranges) = 1
        /\ 120 < new_match_ranges[1][1]
        /\ new_match_ranges[1][1] <= 125
        /\ 175 <= new_match_ranges[1][2]
        /\ new_match_ranges[1][2] < 180

\* C2: an iteration that scores frame 0 or the stop frame (and is not cut
\* short by an exception) ends the search and reports exactly that frame
\* number, whatever the miss counter is.
C2_SentinelReported ==
    [][(pc = "while" /\ fnum \in {0, stop_fnum} /\ pc' # "error") =>
          /\ pc' = "for"
          /\ prec_match_ranges_flat' = Append(prec_match_ranges_flat, fnum)]_vars

\* C3 as claimed: a search that ends by miss-streak exhaustion after at least
\* one hit reports the last visited frame whose confidence exceeded the
\* threshold.
C3_ReportsLastHit ==
    [][(ExhaustExit /\ HitsVisited # {}) =>
          Last(prec_match_ranges_flat') = LastHitVisited]_vars

\* C3 as amended: a search that ends by miss-streak exhaustion after at least
\* one hit reports the frame one signed fine step before the last visited
\* hit, i.e. lastHit - signedFineStep.
C3_ReportsStepBeforeLastHit ==
    [][(ExhaustExit /\ HitsVisited # {}) =>
          Last(prec_match_ranges_flat') = LastHitVisited - current_step_size]_vars

\* a search has just ended by exhaustion and the frame it scored
\* prec_step_threshold steps before the current one was a hit
C3_Witness ==
    /\ pc = "for"
    /\ i >= 1
    /\ prec_counter = prec_step_threshold
    /\ Len(prec_match_ranges_flat) = i
    /\ FrameExists(fnum - current_step_size * prec_step_threshold)
    /\ IsFound(conf[fnum - current_step_size * prec_step_threshold])
    /\ prec_match_ranges_flat[i] =
           fnum - current_step_size * (prec_step_threshold + 1)

\* C10: every boundary search begins with its miss counter equal to 0, and
\* the counter stays within 0..missStreakLimit.
C10_CounterFresh ==
    (pc = "while") =>
        /\ 0 <= prec_counter
        /\ prec_counter <= prec_step_threshold
        /\ (fnum = SearchStart => prec_counter = 0)

\* C10, second search onwards: a later search begins with the counter at 0
\* (stated apart so that the carried-over counter shows by itself).
C10_LaterSearchFresh ==
    (pc = "while" /\ i >= 1 /\ fnum = SearchStart) => prec_counter = 0

---------------------------------------------------------------------------
(* get_pct_timeline and the match ranges of timeline_test *)

\* one iteration of: for fnum in range(start_fnum, stop_fnum, step_size)
TimelineStep ==
    /\ pc = "timeline"
    /\ fnum < stop_fnum
    /\ IF ~FrameExists(fnum)
       THEN /\ Raise("EndOfStream")
            /\ UNCHANGED <<fnum, pct_timeline>>
       ELSE /\ pct_timeline' = Append(pct_timeline,
                                      IF IsFound(conf[fnum]) THEN 0 ELSE -1)
            /\ fnum' = fnum + step_size
            /\ UNCHANGED <<pc, err>>
    /\ UNCHANGED <<start_fnum, stop_fnum, step_size, conf, prec_step_size,
                   prec_step_threshold, init_match_ranges_flat, i,
                   current_step_size, prec_counter, prec_match_ranges_flat,
                   new_match_ranges, timeline_ranges, match_ranges>>
    /\ UNCHANGED <<scoreVars, calibVars, scaleVars>>

\* return pct_timeline
TimelineReturn ==
    /\ pc = "timeline"
    /\ fnum >= stop_fnum
    /\ pc' = "ranges"
    /\ UNCHANGED <<err, start_fnum, stop_fnum, step_size, conf, refineVars,
                   timelineVars, scoreVars, calibVars, scaleVars>>

\* np.multiply(timeline_ranges, self.step_size)
MultiplyRanges(ranges, s) ==
    [k \in 1..Len(ranges) |-> <<ranges[k][1] * s, ranges[k][2] * s>>]

\* timeline_test after the sweep: the cleanup (timeline.fill_filter,
\* size_filter, get_ranges) hands back a range of sample indices of the
\* timeline, and the match ranges are its multiples of step_size
GetMatchRanges ==
    /\ pc = "ranges"
    /\ \/ timeline_ranges' = <<>>
       \/ \E a \in 0..(Len(pct_timeline) - 1) :
            \E b \in a..(Len(pct_timeline) - 1) :
               timeline_ranges' = << <<a, b>> >>
    /\ match_ranges' = MultiplyRanges(timeline_ranges', step_size)
    /\ pc' = "matched"
    /\ UNCHANGED <<err, start_fnum, stop_fnum, step_size, conf, refineVars,
                   pct_timeline, scoreVars, calibVars, scaleVars>>

TimelineInit ==
    /\ pc = "timeline"
    /\ err = "none"
    /\ conf \in [0..MaxTimelineFrame ->
                    {0, conf_threshold, conf_threshold + 1}]
    /\ start_fnum \in 0..MaxStartFrame
    /\ stop_fnum \in start_fnum..(MaxTimelineFrame + 1)
    /\ step_size \in 1..MaxStepSize
    /\ fnum = start_fnum
    /\ RefineIdle /\ TimelineIdle /\ ScoreIdle /\ CalibIdle /\ ScaleIdle

TimelineNext == TimelineStep \/ TimelineReturn \/ GetMatchRanges

SpecTimeline == TimelineInit /\ [][TimelineNext]_vars

---------------------------------------------------------------------------
(* Claims about the timeline *)

\* len(range(start_fnum, stop_fnum, step_size))
RangeLen == IF stop_fnum > start_fnum
            THEN (stop_fnum - start_fnum + step_size - 1) \div step_size
            ELSE 0

\* C4: the coarse match range derived from the sample-index range (a, b)
\* names the frames those samples were taken from:
\* (start + a*step, start + b*step).
C4_RangesNameSampledFrames ==
    (pc = "matched") =>
        \A k \in 1..Len(match_ranges) :
            match_ranges[k] =
                <<start_fnum + timeline_ranges[k][1] * step_size,
                  start_fnum + timeline_ranges[k][2] * step_size>>

\* C5: the timeline returned holds one label per frame of
\* range(start, stop, step), in frame order, and label i is FOUND (0) exactly
\* when the confidence of frame start + i*step is strictly greater than the
\* threshold, NOT_FOUND (-1) otherwise.
C5_TimelineLabels ==
    (pc \in {"ranges", "matched"}) =>
        /\ Len(pct_timeline) = RangeLen
        /\ \A k \in 1..Len(pct_timeline) :
              /\ pct_timeline[k] \in {0, -1}
              /\ (pct_timeline[k] = 0) <=>
                     (conf[start_fnum + (k - 1) * step_size] > conf_threshold)

\* a timeline of at least three samples with a found frame, a frame below
\* the threshold and a frame exactly at the threshold, labelled not found
C5_Witness ==
    /\ pc = "ranges"
    /\ Len(pct_timeline) >= 3
    /\ \E k \in 1..Len(pct_timeline) : pct_timeline[k] = 0
    /\ \E k \in 1..Len(pct_timeline) :
          /\ conf[start_fnum + (k - 1) * step_size] = conf_threshold
          /\ pct_timeline[k] = -1
    /\ \E k \in 1..Len(pct_timeline) :
          conf[start_fnum + (k - 1) * step_size] < conf_threshold
    /\ start_fnum > 0
    /\ step_size > 1

---------------------------------------------------------------------------
(* get_match_results and set_subregion_to_zeros *)

\* the rows (or columns) a Python slice a:b selects, 0 <= a and 0 <= b
Slice(a, b) == {k \in Nat : a <= k /\ k < b} \cap 0..(Max(a, b))

\* x_size (y_size): 2r+1 minus what a border cuts off, for the coordinate c
\* of the center along an axis of length n
RegionSize(c, n, radius) ==
    IF c - radius < 0
    THEN (radius * 2 + 1) - (radius - c)
    ELSE IF c + radius + 1 > n - 1
    THEN (radius * 2 + 1) - (c + radius + 1 - (n - 1))
    ELSE radius * 2 + 1

\* input_mat[tl[0]:br[0], tl[1]:br[1]] = np.zeros((x_size, y_size)) with
\* center_pt = <<x, y>> and mat_dims = <<rows, cols>>. numpy raises ValueError
\* when the zeros do not broadcast to the shape of the slice.
set_subregion_to_zeros(input_mat, mat_dims, center_pt, radius) ==
    LET tl == <<Max(center_pt[2] - radius, 0), Max(center_pt[1] - radius, 0)>>
        br == <<Min(center_pt[2] + radius + 1, mat_dims[1] - 1),
                Min(center_pt[1] + radius + 1, mat_dims[2] - 1)>>
        x_size == RegionSize(center_pt[2], mat_dims[1], radius)
        y_size == RegionSize(center_pt[1], mat_dims[2], radius)
        rows == Slice(tl[1], br[1])
        cols == Slice(tl[2], br[2])
        fits == /\ (x_size = Cardinality(rows) \/ x_size = 1)
                /\ (y_size = Cardinality(cols) \/ y_size = 1)
    IN  IF fits
        THEN [ok |-> TRUE,
              mat |-> [p \in DOMAIN input_mat |->
                         IF p[1] \in rows /\ p[2] \in cols THEN 0
                                                         ELSE input_mat[p]]]
        ELSE [ok |-> FALSE, mat |-> input_mat]

\* cv2.minMaxLoc: the maximum of the map and the locations <<x, y>> holding it
MaxVal(mat) == SetMax({mat[p] : p \in DOMAIN mat})
MaxLocs(mat) == {<<p[2], p[1]>> : p \in {q \in DOMAIN mat : mat[q] = MaxVal(mat)}}

\* one iteration of: for _ in range(0, num_results)
ScoreIter ==
    /\ pc = "score"
    /\ Len(max_val_list) < num_results
    /\ \E top_left \in MaxLocs(match_mat) :
         LET r == set_subregion_to_zeros(match_mat, match_mat_dims, top_left,
                                         template_match_radius)
         IN  IF r.ok
             THEN /\ match_mat' = r.mat
                  /\ max_val_list' = Append(max_val_list, MaxVal(match_mat))
                  /\ top_left_list' = Append(top_left_list, top_left)
                  /\ UNCHANGED <<pc, err>>
             ELSE /\ Raise("ValueError")
                  /\ UNCHANGED <<match_mat, max_val_list, top_left_list>>
    /\ UNCHANGED <<start_fnum, stop_fnum, step_size, conf, refineVars,
                   timelineVars, match_mat_dims, num_results,
                   template_match_radius, calibVars, scaleVars>>

\* return(max_val_list, top_left_list)
ScoreReturn ==
    /\ pc = "score"
    /\ Len(max_val_list) = num_results
    /\ pc' = "scored"
    /\ UNCHANGED <<err, start_fnum, stop_fnum, step_size, conf, refineVars,
                   timelineVars, scoreVars, calibVars, scaleVars>>

ScoreInit ==
    /\ pc = "score"
    /\ err = "none"
    /\ start_fnum = 0 /\ stop_fnum = 0 /\ step_size = 1 /\ conf = <<>>
    /\ fnum = 0
    /\ match_mat_dims \in (1..MaxRows) \X (1..MaxCols)
    /\ match_mat \in [(0..(match_mat_dims[1] - 1)) \X
                      (0..(match_mat_dims[2] - 1)) -> {0, 5, 10}]
    /\ num_results \in 1..MaxResults
    /\ template_match_radius \in 0..MaxRadius
    /\ max_val_list = <<>>
    /\ top_left_list = <<>>
    /\ RefineIdle /\ TimelineIdle /\ CalibIdle /\ ScaleIdle

ScoreNext == ScoreIter \/ ScoreReturn

SpecScore == ScoreInit /\ [][ScoreNext]_vars

---------------------------------------------------------------------------
(* Claims about the score map *)

\* the map with exactly the cells within radius of center_pt = <<x, y>> (in
\* both axes) set to zero
Suppressed(mat, center_pt, radius) ==
    [p \in DOMAIN mat |->
        IF /\ p[1] >= center_pt[2] - radius /\ p[1] <= center_pt[2] + radius
           /\ p[2] >= center_pt[1] - radius /\ p[2] <= center_pt[1] + radius
        THEN 0
        ELSE mat[p]]

\* C6: get_match_results ends normally with exactly num_results confidences
\* and num_results locations, the confidences non-increasing in extraction
\* order.
C6_TopKNonIncreasing ==
    (pc \in {"scored", "error"}) =>
        /\ pc = "scored"
        /\ Len(max_val_list) = num_results
        /\ Len(top_left_list) = num_results
        /\ \A k \in 1..(Len(max_val_list) - 1) :
              max_val_list[k] >= max_val_list[k + 1]

\* C7: each extraction completes without error and zeroes exactly the cells
\* within the radius of the extracted position that lie inside the map (the
\* extracted position among them), leaving every other cell unchanged.
C7_SuppressionExact ==
    [][(pc = "score" /\ pc' # "scored") =>
          /\ pc' = "score"
          /\ match_mat' = Suppressed(match_mat, Last(top_left_list'),
                                     template_match_radius)]_vars

\* C7, the extracted position alone: after an extraction without error the
\* cell of the extracted maximum is zero.
C7_MaximumZeroed ==
    (pc = "score" /\ top_left_list # <<>>) =>
        match_mat[<<Last(top_left_list)[2], Last(top_left_list)[1]>>] = 0

---------------------------------------------------------------------------
(* get_calibrate_results *)

\* range(self.calib_w_range[0], self.calib_w_range[1])
Widths == calib_w_lo..(calib_w_hi - 1)

\* opt_top_left = 0: the initial value is an integer, not a point
NoPoint == <<>>

\* the for loop over the widths: frame[new_w] is what cv2.minMaxLoc gives
\* for the template resized to new_w
RECURSIVE CalibLoop(_, _, _)
CalibLoop(fr, new_w, opt) ==
    IF new_w >= calib_w_hi
    THEN opt
    ELSE LET new_h == (new_w * orig_h) \div orig_w
         IN  CalibLoop(fr, new_w + 1,
                 IF fr[new_w].max_val > opt.opt_max_val
                 THEN [opt_max_val |-> fr[new_w].max_val,
                       opt_top_left |-> fr[new_w].top_left,
                       opt_w |-> new_w,
                       opt_h |-> new_h]
                 ELSE opt)

\* the whole method; subscripting the integer 0 (roi_flag is always True)
\* raises TypeError
get_calibrate_results(fr) ==
    LET opt == CalibLoop(fr, calib_w_lo,
                   [opt_max_val |-> 0, opt_top_left |-> NoPoint,
                    opt_w |-> 0, opt_h |-> 0])
    IN  IF opt.opt_top_left = NoPoint
        THEN [ok |-> FALSE]
        ELSE LET tl == <<opt.opt_top_left[1], opt.opt_top_left[2] + 270>>
             IN  [ok |-> TRUE,
                  bbox |-> <<tl, <<tl[1] + opt.opt_w, tl[2] + opt.opt_h>>>>,
                  opt_max_val |-> opt.opt_max_val,
                  opt_w |-> opt.opt_w,
                  opt_h |-> opt.opt_h]

\* a call of get_calibrate_results(frame)
Calibrate ==
    /\ pc = "calibrate"
    /\ LET r == get_calibrate_results(frame)
       IN  IF r.ok
           THEN /\ calib_result' = r
                /\ pc' = "calibrated"
                /\ err' = err
           ELSE /\ Raise("TypeError")
                /\ calib_result' = calib_result
    /\ UNCHANGED <<start_fnum, stop_fnum, step_size, conf, refineVars,
                   timelineVars, scoreVars, frame, scaleVars>>

\* frames: the best confidence of each width, found at one location of the
\* bottom quarter of the frame
CalibFrames ==
    {[w \in Widths |-> [max_val |-> c[w], top_left |-> loc]] :
        c \in [Widths -> {0, 9, 10}], loc \in {<<0, 0>>, <<300, 40>>}}

CalibInit ==
    /\ pc = "calibrate"
    /\ err = "none"
    /\ start_fnum = 0 /\ stop_fnum = 0 /\ step_size = 1 /\ conf = <<>>
    /\ fnum = 0
    /\ frame \in CalibFrames
    /\ calib_result = <<>>
    /\ RefineIdle /\ TimelineIdle /\ ScoreIdle /\ ScaleIdle

CalibNext == Calibrate

SpecCalib == CalibInit /\ [][CalibNext]_vars

\* C8: for every frame, all confidences 0 included, calibration returns a
\* width in [W_lo, W_hi), the highest confidence measured over the widths,
\* and on ties the smallest width that reaches it.
C8_BestWidthInRange ==
    (pc \in {"calibrated", "error"}) =>
        /\ pc = "calibrated"
        /\ calib_result.opt_w \in Widths
        /\ \A w \in Widths : calib_result.opt_max_val >= frame[w].max_val
        /\ calib_result.opt_max_val = frame[calib_result.opt_w].max_val
        /\ \A w \in Widths :
              frame[w].max_val = calib_result.opt_max_val =>
                  calib_result.opt_w <= w

---------------------------------------------------------------------------
(* initialize_template_scale and get_template_roi *)

\* the k-th smallest element of a sequence of numbers
KthSmallest(s, k) ==
    CHOOSE v \in {s[j] : j \in 1..Len(s)} :
        /\ Cardinality({j \in 1..Len(s) : s[j] < v}) < k
        /\ k <= Cardinality({j \in 1..Len(s) : s[j] <= v})

\* int(np.median(opt_w_list)) of a list that is not empty
Median(s) ==
    IF Len(s) % 2 = 1
    THEN KthSmallest(s, (Len(s) + 1) \div 2)
    ELSE (KthSmallest(s, Len(s) \div 2) + KthSmallest(s, Len(s) \div 2 + 1))
             \div 2

get_template_roi(boxes) ==
    LET y_min_list == {boxes[j][1][2] : j \in 1..Len(boxes)}
        y_max_list == {boxes[j][2][2] : j \in 1..Len(boxes)}
        y_min == Max(0, SetMin(y_min_list) - roi_y_tolerance)
        y_max == Min(359, SetMax(y_max_list) + roi_y_tolerance)
    IN  << <<0, y_min>>, <<639, y_max>> >>

\* the frames the random samples can land on: one width stands out with
\* confidence v at height y of the bottom quarter
SampleFrames ==
    {[w \in Widths |-> [max_val |-> IF w = p THEN v ELSE 0,
                        top_left |-> <<300, y>>]] :
        p \in Widths, v \in {5, conf_threshold, conf_threshold + 1},
        y \in {0, 30, 55}}
    \cup {[w \in Widths |-> [max_val |-> 0, top_left |-> <<0, 0>>]]}

\* one iteration of: for random_fnum in random_fnum_list
SampleFrame ==
    /\ pc = "sampling"
    /\ random_fnum_idx < num_init_frames
    /\ \E fr \in SampleFrames :
         LET r == get_calibrate_results(fr)
         IN  IF ~r.ok
             THEN /\ Raise("TypeError")
                  /\ UNCHANGED <<random_fnum_idx, opt_w_list, bbox_list>>
             ELSE /\ random_fnum_idx' = random_fnum_idx + 1
                  /\ IF r.opt_max_val > conf_threshold
                     THEN /\ opt_w_list' = Append(opt_w_list, r.opt_w)
                          /\ bbox_list' = Append(bbox_list, r.bbox)
                     ELSE UNCHANGED <<opt_w_list, bbox_list>>
                  /\ UNCHANGED <<pc, err>>
    /\ UNCHANGED <<start_fnum, stop_fnum, step_size, conf, refineVars,
                   timelineVars, scoreVars, calibVars, num_init_frames,
                   pct_img, template_roi>>

\* after the loop: the median width, the rescaled template, the ROI.
\* np.median of an empty list is nan, and int(nan) raises ValueError.
ScaleFinish ==
    /\ pc = "sampling"
    /\ random_fnum_idx = num_init_frames
    /\ IF opt_w_list = <<>>
       THEN /\ Raise("ValueError")
            /\ UNCHANGED <<pct_img, template_roi>>
       ELSE LET opt_w == Median(opt_w_list)
                opt_h == (orig_h * opt_w) \div orig_w
            IN  /\ pct_img' = <<opt_w, opt_h>>
                /\ template_roi' = get_template_roi(bbox_list)
                /\ pc' = "scaled"
                /\ err' = err
    /\ UNCHANGED <<start_fnum, stop_fnum, step_size, conf, refineVars,
                   timelineVars, scoreVars, calibVars, num_init_frames,
                   random_fnum_idx, opt_w_list, bbox_list>>

ScaleInit ==
    /\ pc = "sampling"
    /\ err = "none"
    /\ start_fnum = 0 /\ stop_fnum = 0 /\ step_size = 1 /\ conf = <<>>
    /\ fnum = 0
    /\ num_init_frames \in 1..MaxInitFrames
    /\ random_fnum_idx = 0
    /\ opt_w_list = <<>>
    /\ bbox_list = <<>>
    /\ pct_img = InitialPctImg
    /\ template_roi = NoRoi
    /\ RefineIdle /\ TimelineIdle /\ ScoreIdle /\ CalibIdle

ScaleNext == SampleFrame \/ ScaleFinish

SpecScale == ScaleInit /\ [][ScaleNext]_vars

\* C9: when every sample has been calibrated and none exceeded the
\* threshold, the method ends in an explicit CalibrationFailed and the
\* working template and ROI are as they were.
C9_ExplicitCalibrationFailed ==
    (/\ pc \in {"scaled", "error"}
     /\ random_fnum_idx = num_init_frames
     /\ opt_w_list = <<>>) =>
        /\ pc = "error"
        /\ err = "CalibrationFailed"
        /\ pct_img = InitialPctImg
        /\ template_roi = NoRoi

---------------------------------------------------------------------------
(* Termination of get_precise_match_ranges *)

\* C11: every boundary search scores only frame numbers in [0, stop_fnum]
\* on its way to a confirmed boundary (so it cannot step past frame 0 or
\* the stop frame and must end at one of them or by miss-streak exhaustion).
C11_SearchStaysInRange ==
    (pc = "while") => (0 <= fnum /\ fnum <= stop_fnum)

\* C11, the result: refinement never ends in an exception, and what it
\* returns is one pair per coarse range.
C11_ReturnsOnePairPerRange ==
    /\ pc # "error"
    /\ (pc = "done") =>
           2 * Len(new_match_ranges) = Len(init_match_ranges_flat)

====
